---- MODULE Spec2Model ----
(***************************************************************************)
(* Model of onnxruntime/core/providers/qnn/builder/onnx_ctx_model_helper.cc *)
(* : the EPContext cache-node writer (CreateEPContextNodes), the main-node  *)
(* lookup (GetMainContextNode), the spill/fill selection                    *)
(* (TryGetMaxSpillFillSize) and the loader (LoadQnnCtxFromOnnxGraph /       *)
(* GetEpContextFromMainNode).                                               *)
(*                                                                         *)
(* Strings are sequences of one-character strings (ASCII only, so that the  *)
(* std::string <-> PathString conversion maps character for character).     *)
(***************************************************************************)
EXTENDS Integers, Sequences, FiniteSets, TLC

(***************************************************************************)
(* Bounds of the model                                                     *)
(***************************************************************************)
MaxRefLen == 3
MaxParts == 2
MaxInvocations == 3
MaxBlobLen == 2
SizeBits == 4
MaxLoadParts == 3

(***************************************************************************)
(* std::string helpers                                                     *)
(***************************************************************************)
NPOS == 0

RECURSIVE FindFrom(_, _, _)
\* std::string::find(t, pos): first 1-based index >= pos at which t occurs
FindFrom(s, t, pos) ==
  IF pos + Len(t) - 1 > Len(s) THEN NPOS
  ELSE IF SubSeq(s, pos, pos + Len(t) - 1) = t THEN pos
  ELSE FindFrom(s, t, pos + 1)

Find(s, t) == FindFrom(s, t, 1)

\* std::string::find_first_of(chars): first index holding ANY character of chars
FindFirstOf(s, chars) ==
  LET hits == {i \in 1..Len(s) : \E j \in 1..Len(chars) : s[i] = chars[j]}
  IN IF hits = {} THEN NPOS ELSE CHOOSE i \in hits : \A j \in hits : i <= j

\* std::string::find_last_of(chars): last index holding any character of chars
FindLastOf(s, chars) ==
  LET hits == {i \in 1..Len(s) : \E j \in 1..Len(chars) : s[i] = chars[j]}
  IN IF hits = {} THEN NPOS ELSE CHOOSE i \in hits : \A j \in hits : i >= j

\* std::string::replace(pos, n, ""): erase at most n characters from pos on
EraseAt(s, pos, n) ==
  LET last == IF pos + n - 1 > Len(s) THEN Len(s) ELSE pos + n - 1
  IN SubSeq(s, 1, pos - 1) \o SubSeq(s, last + 1, Len(s))

RECURSIVE JoinWith(_, _)
JoinWith(comps, sep) ==
  IF comps = <<>> THEN <<>>
  ELSE IF Len(comps) = 1 THEN Head(comps)
  ELSE Head(comps) \o <<sep>> \o JoinWith(Tail(comps), sep)

\* all strings over alphabet a of length at most n
RECURSIVE StringsUpTo(_, _)
StringsUpTo(a, n) ==
  IF n = 0 THEN {<<>>}
  ELSE LET shorter == StringsUpTo(a, n - 1)
       IN shorter \cup {Append(s, c) : s \in shorter, c \in a}

(***************************************************************************)
(* Names of the EPContext operator and its attributes, and the provider    *)
(***************************************************************************)
EPCONTEXT_OP == "EPContext"
MAIN_CONTEXT == "main_context"
EMBED_MODE == "embed_mode"
EP_CACHE_CONTEXT == "ep_cache_context"
EP_SDK_VER == "ep_sdk_version"
PARTITION_NAME == "partition_name"
SOURCE == "source"
MAX_SIZE == "max_size"

kQnnExecutionProvider ==
  <<"Q","N","N","E","x","e","c","u","t","i","o","n","P","r","o","v","i","d","e","r">>

DotBin == <<".","b","i","n">>

(***************************************************************************)
(* std::filesystem::path, as far as the helper uses it.  win selects the   *)
(* _WIN32 build (separators / and \, root names), otherwise the path       *)
(* grammar is the POSIX one (separator /, no root name).                   *)
(***************************************************************************)
Letters ==
  {"a","b","c","d","e","f","g","h","i","j","k","l","m","n","o","p","q","r","s","t","u","v","w","x","y","z",
   "A","B","C","D","E","F","G","H","I","J","K","L","M","N","O","P","Q","R","S","T","U","V","W","X","Y","Z"}

IsSlash(c, win) == c = "/" \/ (win /\ c = "\\")

PreferredSep(win) == IF win THEN "\\" ELSE "/"

FirstSlashFrom(s, pos, win) ==
  LET hits == {i \in pos..Len(s) : IsSlash(s[i], win)}
  IN IF hits = {} THEN Len(s) + 1 ELSE CHOOSE i \in hits : \A j \in hits : i <= j

\* number of characters of the root name: a drive "X:", a "\\?\"-like prefix
\* or a "\\server" name on _WIN32; none on POSIX
RootNameLen(s, win) ==
  IF ~win THEN 0
  ELSE IF Len(s) < 2 THEN 0
  ELSE IF s[1] \in Letters /\ s[2] = ":" THEN 2
  ELSE IF ~IsSlash(s[1], win) THEN 0
  ELSE IF /\ Len(s) >= 4
          /\ IsSlash(s[4], win)
          /\ (Len(s) = 4 \/ ~IsSlash(s[5], win))
          /\ \/ (IsSlash(s[2], win) /\ s[3] \in {"?", "."})
             \/ (s[2] = "?" /\ s[3] = "?")
       THEN 3
  ELSE IF Len(s) >= 3 /\ IsSlash(s[2], win) /\ ~IsSlash(s[3], win)
       THEN FirstSlashFrom(s, 4, win) - 1
  ELSE 0

RootName(s, win) == SubSeq(s, 1, RootNameLen(s, win))

HasRootDirectory(s, win) ==
  LET n == RootNameLen(s, win) IN Len(s) > n /\ IsSlash(s[n + 1], win)

\* first index of the relative path (after the root name and the root slashes)
RECURSIVE SkipSlashes(_, _, _)
SkipSlashes(s, pos, win) ==
  IF pos <= Len(s) /\ IsSlash(s[pos], win) THEN SkipSlashes(s, pos + 1, win) ELSE pos

RelativeStart(s, win) == SkipSlashes(s, RootNameLen(s, win) + 1, win)

\* std::filesystem::path::is_absolute
IsAbsolute(s, win) ==
  IF ~win THEN HasRootDirectory(s, win)
  ELSE IF Len(s) >= 2 /\ s[1] \in Letters /\ s[2] = ":"
       THEN Len(s) >= 3 /\ IsSlash(s[3], win)
  ELSE RootNameLen(s, win) # 0

RECURSIVE BackWhile(_, _, _, _, _)
\* largest e in lo-1..hi such that s[e+1..hi] are all slashes (slash = TRUE)
\* or all non-slashes (slash = FALSE)
BackWhile(s, lo, hi, slash, win) ==
  IF hi >= lo /\ (IsSlash(s[hi], win) = slash)
  THEN BackWhile(s, lo, hi - 1, slash, win)
  ELSE hi

\* std::filesystem::path::parent_path
ParentPath(s, win) ==
  LET Cut(rel) ==
        SubSeq(s, 1, BackWhile(s, rel, BackWhile(s, rel, Len(s), FALSE, win),
                               TRUE, win))
  IN Cut(RelativeStart(s, win))

\* std::filesystem::path::filename
FileName(s, win) ==
  LET lo == RootNameLen(s, win) + 1
      e  == BackWhile(s, lo, Len(s), FALSE, win)
  IN SubSeq(s, e + 1, Len(s))

HasFileName(s, win) == FileName(s, win) # <<>>

\* std::filesystem::path::operator/= (append)
PathAppend(base, p, win) ==
  LET Join(pRoot, baseRoot) ==
        LET pTail == SubSeq(p, pRoot + 1, Len(p))
        IN IF IsAbsolute(p, win)
              \/ (pRoot # 0 /\ SubSeq(p, 1, pRoot) # SubSeq(base, 1, baseRoot))
           THEN p
           ELSE IF HasRootDirectory(p, win)
           THEN SubSeq(base, 1, baseRoot) \o pTail
           ELSE IF HasFileName(base, win)
                   \/ (~HasRootDirectory(base, win) /\ IsAbsolute(base, win))
           THEN base \o <<PreferredSep(win)>> \o pTail
           ELSE base \o pTail
  IN Join(RootNameLen(p, win), RootNameLen(base, win))

RECURSIVE SplitFrom(_, _, _, _, _)
\* the filenames of s[pos..], split at runs of separators
SplitFrom(s, pos, cur, acc, win) ==
  IF pos > Len(s) THEN (IF cur = <<>> THEN acc ELSE Append(acc, cur))
  ELSE IF IsSlash(s[pos], win)
       THEN SplitFrom(s, pos + 1, <<>>, IF cur = <<>> THEN acc ELSE Append(acc, cur), win)
  ELSE SplitFrom(s, pos + 1, Append(cur, s[pos]), acc, win)

Components(s, win) == SplitFrom(s, RelativeStart(s, win), <<>>, <<>>, win)

EndsWithSlash(s, win) == Len(s) >= RelativeStart(s, win) /\ IsSlash(s[Len(s)], win)

DotDot == <<".", ".">>
Dot == <<".">>

RECURSIVE NormalStack(_, _, _)
\* the filenames left by lexically_normal: "." removed, "x/.." removed,
\* ".." directly under the root directory removed
NormalStack(comps, stack, rooted) ==
  IF comps = <<>> THEN stack
  ELSE LET c == Head(comps) IN
       IF c = Dot THEN NormalStack(Tail(comps), stack, rooted)
       ELSE IF c = DotDot
       THEN IF stack # <<>> /\ stack[Len(stack)] # DotDot
            THEN NormalStack(Tail(comps), SubSeq(stack, 1, Len(stack) - 1), rooted)
            ELSE IF rooted THEN NormalStack(Tail(comps), stack, rooted)
            ELSE NormalStack(Tail(comps), Append(stack, c), rooted)
       ELSE NormalStack(Tail(comps), Append(stack, c), rooted)

SlashesToPreferred(s, win) ==
  [i \in 1..Len(s) |-> IF IsSlash(s[i], win) THEN PreferredSep(win) ELSE s[i]]

\* std::filesystem::path::lexically_normal().make_preferred()
LexicallyNormal(s, win) ==
  LET sep == <<PreferredSep(win)>>
      Result(body) == IF body = <<>> THEN Dot ELSE body
      Build(rn, rd, comps, stack, slashEnd) ==
        LET lastIn == IF comps = <<>> THEN <<>> ELSE comps[Len(comps)]
            trail  == /\ stack # <<>>
                      /\ stack[Len(stack)] # DotDot
                      /\ (slashEnd \/ lastIn \in {Dot, DotDot})
        IN Result(rn \o (IF rd THEN sep ELSE <<>>)
                     \o JoinWith(stack, sep[1])
                     \o (IF trail THEN sep ELSE <<>>))
      Parts(rn, rd, comps) ==
        Build(rn, rd, comps, NormalStack(comps, <<>>, rd), EndsWithSlash(s, win))
  IN IF s = <<>> THEN <<>>
     ELSE Parts(SlashesToPreferred(RootName(s, win), win),
                HasRootDirectory(s, win), Components(s, win))

(***************************************************************************)
(* The file the operating system reaches through a path: root name, root   *)
(* directory and the filenames left after "." and ".." are followed.  Two  *)
(* path strings name the same file exactly when they have the same         *)
(* location.                                                               *)
(***************************************************************************)
Location(s, win) ==
  LET At(rd) ==
        [rn    |-> SlashesToPreferred(RootName(s, win), win),
         rd    |-> rd,
         comps |-> NormalStack(Components(s, win), <<>>, rd)]
  IN At(HasRootDirectory(s, win))


(***************************************************************************)
(* State                                                                   *)
(***************************************************************************)
VARIABLES
  win32,       \* TRUE iff the build defines _WIN32
  sharedName,  \* SharedContext::shared_ctx_bin_file_name_ (<<>> = empty)
  files,       \* the file system: Location -> bytes of the regular file there
  nodes,       \* the nodes CreateEPContextNodes added to model->MainGraph()
  created,     \* arguments and outcome of the last CreateEPContextNodes
  session,     \* the external-mode sharing invocations since the last reset
  invocations, \* number of CreateEPContextNodes invocations so far
  fused,       \* fused_nodes_and_graphs on the load side: one graph each
  ctxPath,     \* ctx_onnx_model_path on the load side
  mainRes,     \* outcome of GetMainContextNode
  selRes,      \* outcome of TryGetMaxSpillFillSize
  loaded,      \* outcome of LoadQnnCtxFromOnnxGraph
  writers,     \* concurrent CreateEPContextNodes invocations in progress
  detected     \* outcome of IsFusedGraphHasCtxNode / GraphHasEpContextNode

vars == <<win32, sharedName, files, nodes, created, session, invocations,
          fused, ctxPath, mainRes, selRes, loaded, writers, detected>>

writeVars == <<sharedName, nodes, created, session, invocations, writers>>
loadVars == <<fused, ctxPath, mainRes, selRes, loaded, detected>>

(***************************************************************************)
(* Nodes and attributes.  attrs is a function from the names of the        *)
(* attributes the node carries to their values.                            *)
(***************************************************************************)
NoAttrs == [k \in {} |-> 0]

\* NodeAttrHelper::Get(key, default)
Get(attrs, key, def) == IF key \in DOMAIN attrs THEN attrs[key] ELSE def

\* Node::AddAttribute(key, value)
AddAttribute(attrs, key, value) ==
  [k \in DOMAIN attrs \cup {key} |-> IF k = key THEN value ELSE attrs[k]]

MakeNode(name, op, attrs) == [name |-> name, op |-> op, attrs |-> attrs]

\* status codes of common::Status
OK == "OK"
FAIL == "FAIL"
INVALID_GRAPH == "INVALID_GRAPH"
THROWN == "exception"

\* the status an ORT_RETURN_IF / ORT_RETURN_IF_NOT returns
ORT_RETURN_IF_code == FAIL

(***************************************************************************)
(* GraphHasEpContextNode (lines 18-32) and IsFusedGraphHasCtxNode (lines   *)
(* 34-43)                                                                  *)
(***************************************************************************)
UpperCase ==
  <<"A","B","C","D","E","F","G","H","I","J","K","L","M","N","O","P","Q","R","S","T","U","V","W","X","Y","Z">>
LowerCase ==
  <<"a","b","c","d","e","f","g","h","i","j","k","l","m","n","o","p","q","r","s","t","u","v","w","x","y","z">>

\* qnn::utils::GetLowercaseString: every upper-case letter replaced by its
\* lower-case one, every other character kept
GetLowercaseString(str) ==
  [i \in 1..Len(str) |->
     IF \E k \in 1..Len(UpperCase) : UpperCase[k] = str[i]
     THEN LowerCase[CHOOSE k \in 1..Len(UpperCase) : UpperCase[k] = str[i]]
     ELSE str[i]]

qnnexecutionprovider ==
  <<"q","n","n","e","x","e","c","u","t","i","o","n","p","r","o","v","i","d","e","r">>
qnn == <<"q","n","n">>

\* GraphHasEpContextNode without the conversion to lower case
RECURSIVE GraphHasEpContextNode_CaseSensitive(_)
GraphHasEpContextNode_CaseSensitive(graph) ==
  IF graph = <<>> THEN FALSE
  ELSE IF /\ Head(graph).op = EPCONTEXT_OP
          /\ Get(Head(graph).attrs, SOURCE, <<>>) \in {qnnexecutionprovider, qnn}
       THEN TRUE
  ELSE GraphHasEpContextNode_CaseSensitive(Tail(graph))

RECURSIVE GraphHasEpContextNode(_)
GraphHasEpContextNode(graph) ==
  IF graph = <<>> THEN FALSE
  ELSE IF /\ Head(graph).op = EPCONTEXT_OP
          /\ GetLowercaseString(Get(Head(graph).attrs, SOURCE, <<>>))
               \in {qnnexecutionprovider, qnn}
       THEN TRUE
  ELSE GraphHasEpContextNode(Tail(graph))

RECURSIVE IsFusedGraphHasCtxNode(_)
IsFusedGraphHasCtxNode(graphs) ==
  IF graphs = <<>> THEN FALSE
  ELSE IF GraphHasEpContextNode(Head(graphs)) THEN TRUE
  ELSE IsFusedGraphHasCtxNode(Tail(graphs))

(***************************************************************************)
(* GetMainContextNode (lines 45-63)                                        *)
(***************************************************************************)
RECURSIVE GetMainLoop(_, _, _)
GetMainLoop(graphs, i, pos) ==
  IF i >= Len(graphs)
  THEN [code |-> IF Len(pos) < 1 THEN ORT_RETURN_IF_code ELSE OK,
        err  |-> IF Len(pos) < 1 THEN "no_main" ELSE "none",
        pos  |-> pos]
  ELSE LET g == graphs[i + 1] IN
       IF Len(g) # 1
       THEN [code |-> ORT_RETURN_IF_code, err |-> "node_count", pos |-> pos]
       ELSE IF g[1].op # EPCONTEXT_OP
       THEN [code |-> ORT_RETURN_IF_code, err |-> "not_epcontext", pos |-> pos]
       ELSE GetMainLoop(graphs, i + 1,
                        IF Get(g[1].attrs, MAIN_CONTEXT, 0) = 1
                        THEN Append(pos, i) ELSE pos)

GetMainContextNode(graphs, main_context_pos) ==
  GetMainLoop(graphs, 0, main_context_pos)

(***************************************************************************)
(* TryGetMaxSpillFillSize (lines 152-177)                                  *)
(***************************************************************************)
RECURSIVE SpillLoop_LastMax(_, _, _, _, _, _)
\* SpillLoop with >= for >: the last maximal entry wins
SpillLoop_LastMax(graphs, total, list, i, max, maxIdx) ==
  IF i >= total
  THEN [code |-> OK, max |-> max, idx |-> maxIdx]
  ELSE LET g == graphs[list[i + 1] + 1] IN
       IF Len(g) # 1
       THEN [code |-> ORT_RETURN_IF_code, max |-> max, idx |-> maxIdx]
       ELSE LET max_size == Get(g[1].attrs, MAX_SIZE, 0) IN
            IF max_size >= max
            THEN SpillLoop_LastMax(graphs, total, list, i + 1, max_size, i)
            ELSE SpillLoop_LastMax(graphs, total, list, i + 1, max, maxIdx)

RECURSIVE SpillLoop(_, _, _, _, _, _)
SpillLoop(graphs, total, list, i, max, maxIdx) ==
  IF i >= total
  THEN [code |-> OK, max |-> max, idx |-> maxIdx]
  ELSE LET g == graphs[list[i + 1] + 1] IN
       IF Len(g) # 1
       THEN [code |-> ORT_RETURN_IF_code, max |-> max, idx |-> maxIdx]
       ELSE LET max_size == Get(g[1].attrs, MAX_SIZE, 0) IN
            IF max_size > max
            THEN SpillLoop(graphs, total, list, i + 1, max_size, i)
            ELSE SpillLoop(graphs, total, list, i + 1, max, maxIdx)

\* SwapToFront as a stable move to the front instead of an exchange
SwapToFront_Rotate(list, max_size_index) ==
  IF 0 # max_size_index
  THEN <<list[max_size_index + 1]>>
         \o SubSeq(list, 1, max_size_index)
         \o SubSeq(list, max_size_index + 2, Len(list))
  ELSE list

\* the swap of lines 170-174
SwapToFront(list, max_size_index) ==
  IF 0 # max_size_index
  THEN [list EXCEPT ![1] = list[max_size_index + 1],
                    ![max_size_index + 1] = list[1]]
  ELSE list

TryGetMaxSpillFillSize(graphs, total_context_size, main_context_pos_list) ==
  LET r == SpillLoop(graphs, total_context_size, main_context_pos_list, 0, 0, 0)
  IN [code |-> r.code,
      max_spill_fill_size |-> r.max,
      list |-> IF r.code = OK THEN SwapToFront(main_context_pos_list, r.idx)
               ELSE main_context_pos_list]


(***************************************************************************)
(* The loader: GetEpContextFromMainNode (lines 85-150) and                 *)
(* LoadQnnCtxFromOnnxGraph (lines 179-196).                                *)
(*                                                                         *)
(* env is what the environment answers during one load:                    *)
(*   statOk    the file status can be queried (otherwise the throwing      *)
(*             overload of std::filesystem::is_regular_file throws)        *)
(*   openOk    std::ifstream opens the file                                *)
(*   readOk    the read delivers buffer_size bytes                         *)
(*   backend   status code of LoadCachedQnnContextFromBuffer               *)
(***************************************************************************)
NoBuffer == <<"no buffer">>
NoPath == <<"no path">>

LoadEnvs ==
  [statOk : BOOLEAN, openOk : BOOLEAN, readOk : BOOLEAN, backend : {OK, FAIL}]

LoadResult(code, err, handed, buf, path, fsOps) ==
  [code |-> code, err |-> err, handed |-> handed, buf |-> buf,
   path |-> path, fsOps |-> fsOps]

\* qnn_backend_manager->LoadCachedQnnContextFromBuffer(buffer, length, ...)
LoadCachedQnnContextFromBuffer(buf, path, fsOps, env) ==
  LoadResult(env.backend, IF env.backend = OK THEN "none" ELSE "backend",
             TRUE, buf, path, fsOps)

\* lines 105-115 (_WIN32) and 117-124 (otherwise): the checks on the text of
\* ep_cache_context and the path handed to the file system
ResolveExternal(folder_path, name, win) ==
  LET Checked(relative_path) ==
        IF Find(relative_path, DotDot) # NPOS
        THEN [code |-> INVALID_GRAPH, err |-> "dotdot", path |-> NoPath]
        ELSE [code |-> OK, err |-> "none",
              path |-> PathAppend(folder_path, relative_path, TRUE)]
  IN
  IF win
  THEN IF IsAbsolute(name, TRUE)
       THEN [code |-> ORT_RETURN_IF_code, err |-> "absolute", path |-> NoPath]
       ELSE Checked(LexicallyNormal(name, TRUE))
  ELSE IF name[1] = "/"
       THEN [code |-> ORT_RETURN_IF_code, err |-> "absolute", path |-> NoPath]
       ELSE IF Find(name, DotDot) # NPOS
       THEN [code |-> INVALID_GRAPH, err |-> "dotdot", path |-> NoPath]
       ELSE [code |-> OK, err |-> "none",
             path |-> PathAppend(folder_path, name, FALSE)]

\* the path ends in a filename other than "." and "..", so it can name a file
NamesFile(path, win) ==
  LET Named(comps) == comps # <<>> /\ comps[Len(comps)] \notin {Dot, DotDot}
  IN ~EndsWithSlash(path, win) /\ Named(Components(path, win))

\* std::filesystem::is_regular_file on the modelled file system
IsRegularFile(fs, path, win) ==
  NamesFile(path, win) /\ Location(path, win) \in DOMAIN fs

\* ReadExternal without the test of line 136: an empty file is read and handed on
ReadExternal_NoEmptyCheck(fs, path, env, win) ==
  LET Opened(content) ==
        IF ~env.readOk
        THEN LoadResult(ORT_RETURN_IF_code, "read", FALSE, NoBuffer, path,
                        <<"status", "open", "seek", "read">>)
        ELSE LoadCachedQnnContextFromBuffer(content, path,
                        <<"status", "open", "seek", "read">>, env)
  IN
  IF ~env.statOk
  THEN LoadResult(THROWN, "stat", FALSE, NoBuffer, path, <<"status">>)
  ELSE IF ~IsRegularFile(fs, path, win)
  THEN LoadResult(INVALID_GRAPH, "not_regular", FALSE, NoBuffer, path, <<"status">>)
  ELSE IF ~env.openOk
  THEN LoadResult(ORT_RETURN_IF_code, "open", FALSE, NoBuffer, path,
                  <<"status", "open">>)
  ELSE Opened(fs[Location(path, win)])

\* lines 126-149: existence check, open, size, read, hand-over
ReadExternal(fs, path, env, win) ==
  LET Opened(content) ==
        IF 0 = Len(content)
        THEN LoadResult(ORT_RETURN_IF_code, "empty_file", FALSE, NoBuffer, path,
                        <<"status", "open", "seek">>)
        ELSE IF ~env.readOk
        THEN LoadResult(ORT_RETURN_IF_code, "read", FALSE, NoBuffer, path,
                        <<"status", "open", "seek", "read">>)
        ELSE LoadCachedQnnContextFromBuffer(content, path,
                        <<"status", "open", "seek", "read">>, env)
  IN
  IF ~env.statOk
  THEN LoadResult(THROWN, "stat", FALSE, NoBuffer, path, <<"status">>)
  ELSE IF ~IsRegularFile(fs, path, win)
  THEN LoadResult(INVALID_GRAPH, "not_regular", FALSE, NoBuffer, path, <<"status">>)
  ELSE IF ~env.openOk
  THEN LoadResult(ORT_RETURN_IF_code, "open", FALSE, NoBuffer, path,
                  <<"status", "open">>)
  ELSE Opened(fs[Location(path, win)])

GetEpContextFromMainNode(main_context_node, ctx_onnx_model_path, fs, env, win) ==
  IF main_context_node.op # EPCONTEXT_OP
  THEN LoadResult(ORT_RETURN_IF_code, "not_epcontext", FALSE, NoBuffer, NoPath, <<>>)
  ELSE IF Get(main_context_node.attrs, EMBED_MODE, 1) # 0
  THEN LoadCachedQnnContextFromBuffer(
         Get(main_context_node.attrs, EP_CACHE_CONTEXT, <<>>), NoPath, <<>>, env)
  ELSE LET Resolved(r) ==
             IF r.code # OK
             THEN LoadResult(r.code, r.err, FALSE, NoBuffer, NoPath, <<>>)
             ELSE ReadExternal(fs, r.path, env, win)
           External(folder_path, name) ==
             IF name = <<>>
             THEN LoadResult(ORT_RETURN_IF_code, "empty_ref", FALSE, NoBuffer,
                             NoPath, <<>>)
             ELSE Resolved(ResolveExternal(folder_path, name, win))
       IN External(ParentPath(ctx_onnx_model_path, win),
                   Get(main_context_node.attrs, EP_CACHE_CONTEXT, <<>>))

LoadQnnCtxFromOnnxGraph(graph, ctx_onnx_model_path, fs, env, win) ==
  IF Len(graph) # 1
  THEN LoadResult(ORT_RETURN_IF_code, "node_count", FALSE, NoBuffer, NoPath, <<>>)
  ELSE LET Wrapped(status) ==
             IF status.code \notin {OK, THROWN}
             THEN [status EXCEPT !.code = INVALID_GRAPH]
             ELSE status
       IN Wrapped(GetEpContextFromMainNode(graph[1], ctx_onnx_model_path,
                                           fs, env, win))


(***************************************************************************)
(* The writer: CreateEPContextNodes (lines 198-300).                       *)
(*                                                                         *)
(* a is the argument record of one invocation:                             *)
(*   buffer, names (fused_node.Name() per partition), path                 *)
(*   (context_model_path), embed, maxSpill (uint64), share, stop,          *)
(*   failAt   1-based partition whose qnn_models lookup or CreateNodeArgs  *)
(*            fails (0: none),                                             *)
(*   openOk   std::ofstream opens the file,                                *)
(*   written  number of bytes of_stream.write gets into the file           *)
(***************************************************************************)
SdkVersion == <<"v">>

\* the bytes of a context binary
Byte00 == "00"
Byte7f == "7f"

\* static_cast<int64_t>(uint64_t) at the modelled word width
ToInt64(v) == IF v >= 2^(SizeBits - 1) THEN v - 2^SizeBits ELSE v

\* lines 244-249: context_model_path up to its last '.'
StripExtension(context_model_path) ==
  LET pos == FindLastOf(context_model_path, <<".">>)
  IN IF pos # NPOS THEN SubSeq(context_model_path, 1, pos - 1)
     ELSE context_model_path

\* lines 250-254: graph_name with strlen(kQnnExecutionProvider) characters
\* erased from the position find_first_of reports
GraphNameInFile(graph_name) ==
  LET name_pos == FindFirstOf(graph_name, kQnnExecutionProvider)
  IN IF name_pos # NPOS
     THEN EraseAt(graph_name, name_pos, Len(kQnnExecutionProvider))
     ELSE graph_name

\* line 255
ContextBinPath(context_model_path, graph_name) ==
  StripExtension(context_model_path) \o GraphNameInFile(graph_name) \o DotBin

\* lines 273-278: create/truncate the file, then write the buffer
WriteFile(fs, path, buffer, written, win) ==
  LET loc == Location(path, win)
  IN [l \in DOMAIN fs \cup {loc} |->
        IF l = loc THEN SubSeq(buffer, 1, written) ELSE fs[l]]

\* MainNodePayload that dumps the buffer to the file in embed mode as well
MainNodePayload_EmbedAlsoWrites(a, shared, fs, win) ==
  LET Payload(binPath, computed) ==
        [code |-> OK,
         attrs |-> IF a.embed THEN AddAttribute(NoAttrs, EP_CACHE_CONTEXT, a.buffer)
                   ELSE AddAttribute(AddAttribute(NoAttrs, EP_CACHE_CONTEXT, computed),
                                     MAX_SIZE, ToInt64(a.maxSpill)),
         shared |-> shared,
         fs |-> WriteFile(fs, binPath, a.buffer, Len(a.buffer), win),
         fsOps |-> <<"open", "write">>,
         computed |-> computed, binPath |-> binPath]
      Named(binPath) == Payload(binPath, FileName(binPath, win))
  IN Named(ContextBinPath(a.path, a.names[1]))

\* MainNodePayload that never reuses the name recorded in SharedContext
MainNodePayload_NoReuse(a, shared, fs, win) ==
  IF a.embed
  THEN [code |-> OK, attrs |-> AddAttribute(NoAttrs, EP_CACHE_CONTEXT, a.buffer),
        shared |-> shared, fs |-> fs, fsOps |-> <<>>,
        computed |-> <<>>, binPath |-> NoPath]
  ELSE LET doWrite == ~a.share \/ (a.share /\ a.stop)
           Payload(binPath, computed) ==
             IF doWrite /\ ~a.openOk
             THEN [code |-> FAIL, attrs |-> NoAttrs, shared |-> computed, fs |-> fs,
                   fsOps |-> <<"open">>, computed |-> computed, binPath |-> binPath]
             ELSE [code |-> OK,
                   attrs |-> AddAttribute(AddAttribute(NoAttrs, EP_CACHE_CONTEXT,
                                                       computed),
                                          MAX_SIZE, ToInt64(a.maxSpill)),
                   shared |-> IF a.share /\ a.stop THEN <<>>
                              ELSE IF a.share THEN computed ELSE shared,
                   fs |-> IF doWrite
                          THEN WriteFile(fs, binPath, a.buffer, a.written, win)
                          ELSE fs,
                   fsOps |-> IF doWrite THEN <<"open", "write">> ELSE <<>>,
                   computed |-> computed, binPath |-> binPath]
           Named(binPath) == Payload(binPath, FileName(binPath, win))
       IN Named(ContextBinPath(a.path, a.names[1]))

\* lines 237-287: what the first partition's node receives, and the effects
\* on SharedContext and on the file system
MainNodePayload(a, shared, fs, win) ==
  IF a.embed
  THEN [code |-> OK, attrs |-> AddAttribute(NoAttrs, EP_CACHE_CONTEXT, a.buffer),
        shared |-> shared, fs |-> fs, fsOps |-> <<>>,
        computed |-> <<>>, binPath |-> NoPath]
  ELSE LET reuse   == a.share /\ shared # <<>>
           doWrite == ~a.share \/ (a.share /\ a.stop)
           Payload(computed, name, binPath, shared1) ==
             IF doWrite /\ ~a.openOk
             THEN [code |-> FAIL, attrs |-> NoAttrs, shared |-> shared1, fs |-> fs,
                   fsOps |-> <<"open">>, computed |-> computed, binPath |-> binPath]
             ELSE [code |-> OK,
                   attrs |-> AddAttribute(AddAttribute(NoAttrs, EP_CACHE_CONTEXT, name),
                                          MAX_SIZE, ToInt64(a.maxSpill)),
                   shared |-> IF a.share /\ a.stop THEN <<>> ELSE shared1,
                   fs |-> IF doWrite
                          THEN WriteFile(fs, binPath, a.buffer, a.written, win)
                          ELSE fs,
                   fsOps |-> IF doWrite THEN <<"open", "write">> ELSE <<>>,
                   computed |-> computed, binPath |-> binPath]
           Shared(bin0, computed) ==
             Payload(computed,
                     IF reuse THEN shared ELSE computed,
                     IF reuse THEN ParentPath(bin0, win) \o <<"/">> \o shared
                     ELSE bin0,
                     IF a.share /\ shared = <<>> THEN computed ELSE shared)
           Named(bin0) == Shared(bin0, FileName(bin0, win))
       IN Named(ContextBinPath(a.path, a.names[1]))

\* OtherNodePayload with a copy of the context binary on every later node
OtherNodePayload_CarriesPayload ==
  AddAttribute(AddAttribute(NoAttrs, MAIN_CONTEXT, 0), EP_CACHE_CONTEXT, <<Byte7f>>)

\* lines 288-290: what every later partition's node receives
OtherNodePayload == AddAttribute(NoAttrs, MAIN_CONTEXT, 0)

\* lines 291-295: the attributes every node receives
CommonAttributes(attrs, embed, graph_name) ==
  AddAttribute(
    AddAttribute(
      AddAttribute(
        AddAttribute(attrs, EMBED_MODE, IF embed THEN 1 ELSE 0),
        EP_SDK_VER, SdkVersion),
      PARTITION_NAME, graph_name),
    SOURCE, kQnnExecutionProvider)

CreateEPContextNodes(a, shared, fs, win) ==
  LET n    == Len(a.names)
      last == IF a.failAt = 0 THEN n ELSE a.failAt - 1
      unchanged == [code |-> FAIL, err |-> "partition", nodes |-> <<>>,
                    shared |-> shared, fs |-> fs, fsOps |-> <<>>,
                    computed |-> <<>>, binPath |-> NoPath, reached |-> FALSE]
  IN IF last = 0 THEN [unchanged EXCEPT !.code = IF n = 0 THEN OK ELSE FAIL,
                                        !.err = IF n = 0 THEN "none" ELSE "partition"]
     ELSE LET Emitted(m) ==
                IF m.code # OK
                THEN [code |-> m.code, err |-> "open",
                      nodes |-> <<MakeNode(a.names[1], EPCONTEXT_OP, NoAttrs)>>,
                      shared |-> m.shared, fs |-> m.fs, fsOps |-> m.fsOps,
                      computed |-> m.computed, binPath |-> m.binPath,
                      reached |-> TRUE]
                ELSE [code |-> IF a.failAt = 0 THEN OK ELSE FAIL,
                      err |-> IF a.failAt = 0 THEN "none" ELSE "partition",
                      nodes |-> [i \in 1..last |->
                                   MakeNode(a.names[i], EPCONTEXT_OP,
                                            CommonAttributes(
                                              IF i = 1 THEN m.attrs
                                              ELSE OtherNodePayload,
                                              a.embed, a.names[i]))],
                      shared |-> m.shared, fs |-> m.fs, fsOps |-> m.fsOps,
                      computed |-> m.computed, binPath |-> m.binPath,
                      reached |-> TRUE]
          IN Emitted(MainNodePayload(a, shared, fs, win))


(***************************************************************************)
(* Inputs                                                                  *)
(***************************************************************************)
\* the compiled context binaries: n - 1 bytes 0x7f followed by a 0x00 byte
Blobs == {[i \in 1..n |-> IF i = n THEN Byte00 ELSE Byte7f] : n \in 1..MaxBlobLen}

\* context_model_path values: "d/m.o", "e/n.o", "m.o", "d.v/m"
ModelPaths ==
  {<<"d","/","m",".","o">>, <<"e","/","n",".","o">>, <<"m",".","o">>,
   <<"d",".","v","/","m">>}

\* fused_node.Name() of the first partition: "QNNExecutionProvider_1", "big", "Z1"
GraphNames == {kQnnExecutionProvider \o <<"_","1">>, <<"b","i","g">>, <<"Z","1">>}

\* fused_node.Name() of the i-th partition, i >= 2
OtherName(i) == IF i = 2 THEN <<"p","2">> ELSE IF i = 3 THEN <<"p","3">> ELSE <<"p","4">>

PartitionNames(first, n) == [i \in 1..n |-> IF i = 1 THEN first ELSE OtherName(i)]

\* max_spill_fill_buffer_size values (uint64 at the modelled width)
MaxSpills == {0, 3, 2^(SizeBits - 1)}

CreateArgs(paths, names, blobs, spills) ==
  {a \in [buffer : blobs, names : {PartitionNames(g, n) : g \in names, n \in 1..MaxParts},
          path : paths, embed : BOOLEAN, maxSpill : spills,
          share : BOOLEAN, stop : BOOLEAN, failAt : 0..MaxParts,
          openOk : BOOLEAN, written : 0..MaxBlobLen] :
     /\ a.failAt <= Len(a.names)
     \* the environment only answers the questions the invocation asks
     /\ LET asks == ~a.embed /\ a.failAt # 1 /\ (~a.share \/ a.stop)
        IN /\ (~asks => a.openOk)
           /\ (asks /\ a.openOk => a.written <= Len(a.buffer))
           /\ (~(asks /\ a.openOk) => a.written = 0)}

AllCreateArgs == CreateArgs(ModelPaths, GraphNames, Blobs, MaxSpills)

(***************************************************************************)
(* Idle values of the result variables                                     *)
(***************************************************************************)
NoArgs ==
  [buffer |-> <<>>, names |-> <<>>, path |-> <<>>, embed |-> FALSE, maxSpill |-> 0,
   share |-> FALSE, stop |-> FALSE, failAt |-> 0, openOk |-> TRUE, written |-> 0]

NotCreated ==
  [done |-> FALSE, code |-> OK, err |-> "none", args |-> NoArgs, fsOps |-> <<>>,
   computed |-> <<>>, binPath |-> NoPath, sharedBefore |-> <<>>]

NoMainRes == [done |-> FALSE, code |-> OK, err |-> "none", pos |-> <<>>]

NoSelRes ==
  [done |-> FALSE, code |-> OK, max_spill_fill_size |-> 0, list |-> <<>>, input |-> <<>>]

NoEnv == [statOk |-> TRUE, openOk |-> TRUE, readOk |-> TRUE, backend |-> OK]

NotDetected == [done |-> FALSE, has |-> FALSE, per |-> <<>>]

NotLoaded ==
  [done |-> FALSE, part |-> 0, env |-> NoEnv,
   res |-> LoadResult(OK, "none", FALSE, NoBuffer, NoPath, <<>>)]

\* GetCapability puts every EPContext node into a filtered graph of its own
\* (comment at lines 48-49)
FilteredGraphs(ns) == [i \in 1..Len(ns) |-> <<ns[i]>>]

(***************************************************************************)
(* Actions                                                                 *)
(***************************************************************************)
SessionEntry(a, r, shared) ==
  [name |-> IF r.nodes # <<>> THEN Get(r.nodes[1].attrs, EP_CACHE_CONTEXT, <<>>)
            ELSE <<>>,
   computed |-> r.computed,
   writes |-> Cardinality({i \in 1..Len(r.fsOps) : r.fsOps[i] = "write"}),
   final |-> a.stop, ok |-> r.code = OK, sharedBefore |-> shared,
   path |-> a.path, binPath |-> r.binPath]

SessionOver(sess) == sess # <<>> /\ sess[Len(sess)].final

\* one complete CreateEPContextNodes invocation with arguments a
CreateWith(a) ==
  LET Returned(r) ==
        /\ sharedName' = r.shared
        /\ files' = r.fs
        /\ nodes' = r.nodes
        /\ created' = [done |-> TRUE, code |-> r.code, err |-> r.err, args |-> a,
                       fsOps |-> r.fsOps, computed |-> r.computed,
                       binPath |-> r.binPath, sharedBefore |-> sharedName]
        /\ session' = IF a.share /\ ~a.embed
                      THEN Append(IF SessionOver(session) THEN <<>> ELSE session,
                                  SessionEntry(a, r, sharedName))
                      ELSE session
        /\ invocations' = invocations + 1
        /\ fused' = FilteredGraphs(r.nodes)
        /\ ctxPath' = a.path
        /\ mainRes' = NoMainRes
        /\ selRes' = NoSelRes
        /\ loaded' = NotLoaded
        /\ detected' = NotDetected
        /\ UNCHANGED <<win32, writers>>
  IN Returned(CreateEPContextNodes(a, sharedName, files, win32))

\* the context model is generated once
Create ==
  /\ ~created.done
  /\ \E a \in AllCreateArgs : CreateWith(a)

\* GetMainContextNode over the fused partitions, called with an empty list
FindMain ==
  /\ fused # <<>>
  /\ ~mainRes.done
  /\ LET r == GetMainContextNode(fused, <<>>)
     IN mainRes' = [done |-> TRUE, code |-> r.code, err |-> r.err, pos |-> r.pos]
  /\ UNCHANGED <<win32, files, fused, ctxPath, detected, selRes, loaded>>
  /\ UNCHANGED writeVars

\* TryGetMaxSpillFillSize over the main partitions GetMainContextNode found
Select ==
  /\ mainRes.done /\ mainRes.code = OK
  /\ ~selRes.done
  /\ LET r == TryGetMaxSpillFillSize(fused, Len(mainRes.pos), mainRes.pos)
     IN selRes' = [done |-> TRUE, code |-> r.code,
                   max_spill_fill_size |-> r.max_spill_fill_size,
                   list |-> r.list, input |-> mainRes.pos]
  /\ UNCHANGED <<win32, files, fused, ctxPath, detected, mainRes, loaded>>
  /\ UNCHANGED writeVars

\* the environment only answers the questions the load asks
AskedOnly(env, res) ==
  LET asked(op) == \E k \in 1..Len(res.fsOps) : res.fsOps[k] = op
  IN [statOk  |-> IF asked("status") THEN env.statOk ELSE TRUE,
      openOk  |-> IF asked("open") THEN env.openOk ELSE TRUE,
      readOk  |-> IF asked("read") THEN env.readOk ELSE TRUE,
      backend |-> IF res.handed THEN env.backend ELSE OK]

\* LoadQnnCtxFromOnnxGraph on the filtered graph of one partition
Load ==
  /\ fused # <<>>
  /\ ~loaded.done
  /\ \E i \in 1..Len(fused), env \in LoadEnvs :
       LET Returned(res) ==
             /\ env = AskedOnly(env, res)
             /\ loaded' = [done |-> TRUE, part |-> i, env |-> env, res |-> res]
       IN Returned(LoadQnnCtxFromOnnxGraph(fused[i], ctxPath, files, env, win32))
  /\ UNCHANGED <<win32, files, fused, ctxPath, detected, mainRes, selRes>>
  /\ UNCHANGED writeVars

\* IsFusedGraphHasCtxNode over the fused partitions, and GraphHasEpContextNode
\* on the filtered graph of each
Detect ==
  /\ ~detected.done
  /\ detected' = [done |-> TRUE, has |-> IsFusedGraphHasCtxNode(fused),
                  per |-> [i \in 1..Len(fused) |-> GraphHasEpContextNode(fused[i])]]
  /\ UNCHANGED <<win32, files, fused, ctxPath, mainRes, selRes, loaded>>
  /\ UNCHANGED writeVars

(***************************************************************************)
(* Spec: one context model is generated and then loaded again              *)
(***************************************************************************)
\* a name an unfinished sharing session left in SharedContext: "s.bin"
StaleName == <<"s">> \o DotBin

NoFiles == [l \in {} |-> <<>>]

Init ==
  /\ win32 \in BOOLEAN
  /\ sharedName \in {<<>>, StaleName}
  /\ files = NoFiles
  /\ nodes = <<>>
  /\ created = NotCreated
  /\ session = <<>>
  /\ invocations = 0
  /\ fused = <<>>
  /\ ctxPath = <<>>
  /\ mainRes = NoMainRes
  /\ selRes = NoSelRes
  /\ loaded = NotLoaded
  /\ writers = <<>>
  /\ detected = NotDetected

Next == Create \/ FindMain \/ Load

Spec == Init /\ [][Next]_vars


(***************************************************************************)
(* SpecLoad: LoadQnnCtxFromOnnxGraph on an arbitrary filtered graph        *)
(***************************************************************************)
RefAlphabet == {"/", "\\", ".", ":", "C", "a"}

\* "a/../a", "a/../../a", "C:\a", "C:a/a", "/a/a", "a.bin"
ExampleRefs ==
  {<<"a","/",".",".","/","a">>,
   <<"a","/",".",".","/",".",".","/","a">>,
   <<"C",":","\\","a">>,
   <<"C",":","a","/","a">>,
   <<"/","a","/","a">>,
   <<"a">> \o DotBin}

Refs == StringsUpTo(RefAlphabet, MaxRefLen) \cup ExampleRefs

\* ctx_onnx_model_path values on the load side: "d/m.o", "m.o", "C:\d\m.o"
LoadModelPaths ==
  {<<"d","/","m",".","o">>, <<"m",".","o">>, <<"C",":","\\","d","\\","m",".","o">>}

NodeName == <<"n">>

ExternalNode(ref) ==
  MakeNode(NodeName, EPCONTEXT_OP,
           AddAttribute(AddAttribute(NoAttrs, EMBED_MODE, 0), EP_CACHE_CONTEXT, ref))

LoadNodes ==
  {ExternalNode(r) : r \in Refs}
  \cup {MakeNode(NodeName, EPCONTEXT_OP, AddAttribute(NoAttrs, EMBED_MODE, 0))}
  \cup {MakeNode(NodeName, EPCONTEXT_OP, AddAttribute(NoAttrs, EP_CACHE_CONTEXT, b)) :
          b \in Blobs}
  \cup {MakeNode(NodeName, EPCONTEXT_OP,
                 AddAttribute(AddAttribute(NoAttrs, EMBED_MODE, 1), EP_CACHE_CONTEXT, b)) :
          b \in Blobs}
  \cup {MakeNode(NodeName, EPCONTEXT_OP, AddAttribute(NoAttrs, EMBED_MODE, 1))}
  \cup {MakeNode(NodeName, "Conv", NoAttrs)}

LoadGraphs ==
  {<<>>} \cup {<<n>> : n \in LoadNodes}
         \cup {<<ExternalNode(<<"a">> \o DotBin), ExternalNode(<<"a">> \o DotBin)>>}

\* the file systems a load can meet: no file at all, or a regular file (empty
\* or holding a context binary) at the place the node's reference leads to
LoadFileSystems(graph, path, win) ==
  LET name == IF Len(graph) = 1
              THEN Get(graph[1].attrs, EP_CACHE_CONTEXT, <<>>) ELSE <<>>
      At(loc) == {[l \in {loc} |-> c] : c \in {<<>>} \cup Blobs}
      Reached(r) ==
        IF r.code = OK /\ NamesFile(r.path, win) THEN At(Location(r.path, win))
        ELSE {}
  IN {NoFiles} \cup
     Reached(IF name = <<>> THEN [code |-> FAIL]
             ELSE ResolveExternal(ParentPath(path, win), name, win))

InitLoad ==
  /\ win32 \in BOOLEAN
  /\ ctxPath \in LoadModelPaths
  /\ \E g \in LoadGraphs :
       /\ fused = <<g>>
       /\ files \in LoadFileSystems(g, ctxPath, win32)
  /\ sharedName = <<>>
  /\ nodes = <<>>
  /\ created = NotCreated
  /\ session = <<>>
  /\ invocations = 0
  /\ mainRes = NoMainRes
  /\ selRes = NoSelRes
  /\ loaded = NotLoaded
  /\ writers = <<>>
  /\ detected = NotDetected

NextLoad == Load

SpecLoad == InitLoad /\ [][NextLoad]_vars

(***************************************************************************)
(* SpecSel: GetMainContextNode and TryGetMaxSpillFillSize on arbitrary     *)
(* fused partitions                                                        *)
(***************************************************************************)
SelSizes == {-1, 0, 1, 2}

MainNode(attrs) == MakeNode(NodeName, EPCONTEXT_OP, AddAttribute(attrs, MAIN_CONTEXT, 1))

SelGraphs ==
  {<<MainNode(AddAttribute(NoAttrs, MAX_SIZE, z))>> : z \in SelSizes}
  \cup {<<MainNode(NoAttrs)>>}
  \cup {<<MakeNode(NodeName, EPCONTEXT_OP,
                   AddAttribute(AddAttribute(NoAttrs, MAIN_CONTEXT, 0), MAX_SIZE, 2))>>}
  \cup {<<MakeNode(NodeName, EPCONTEXT_OP, NoAttrs)>>}
  \cup {<<MakeNode(NodeName, "Conv", AddAttribute(NoAttrs, MAIN_CONTEXT, 1))>>}
  \cup {<<>>}

RECURSIVE SeqsUpTo(_, _)
SeqsUpTo(S, n) ==
  IF n = 0 THEN {<<>>}
  ELSE LET shorter == SeqsUpTo(S, n - 1)
       IN shorter \cup {Append(q, x) : q \in shorter, x \in S}

InitSel ==
  /\ win32 = FALSE
  /\ fused \in SeqsUpTo(SelGraphs, MaxLoadParts) \ {<<>>}
  /\ ctxPath = <<"m",".","o">>
  /\ files = NoFiles
  /\ sharedName = <<>>
  /\ nodes = <<>>
  /\ created = NotCreated
  /\ session = <<>>
  /\ invocations = 0
  /\ mainRes = NoMainRes
  /\ selRes = NoSelRes
  /\ loaded = NotLoaded
  /\ writers = <<>>
  /\ detected = NotDetected

NextSel == FindMain \/ Select

SpecSel == InitSel /\ [][NextSel]_vars


(***************************************************************************)
(* SpecDetect: the detection of EPContext nodes of this provider, on       *)
(* arbitrary fused partitions and on the nodes CreateEPContextNodes emits  *)
(***************************************************************************)
MaxDetectParts == 2

\* source values: "QNN", "qnn", "QNNExecutionProvider", "qn", "ov"
DetectSources ==
  {<<"Q","N","N">>, qnn, kQnnExecutionProvider, <<"q","n">>, <<"o","v">>}

SourceNode(op, src) == MakeNode(NodeName, op, AddAttribute(NoAttrs, SOURCE, src))

DetectGraphs ==
  {<<>>}
  \cup {<<SourceNode(EPCONTEXT_OP, src)>> : src \in DetectSources}
  \cup {<<MakeNode(NodeName, EPCONTEXT_OP, NoAttrs)>>,
        <<SourceNode("Conv", qnn)>>,
        <<SourceNode("Conv", qnn), SourceNode(EPCONTEXT_OP, <<"Q","N","N">>)>>,
        <<SourceNode(EPCONTEXT_OP, <<"o","v">>), SourceNode(EPCONTEXT_OP, qnn)>>,
        <<SourceNode(EPCONTEXT_OP, <<"o","v">>), SourceNode("Conv", qnn)>>}

DetectArgs ==
  {a \in CreateArgs({<<"m",".","o">>}, {<<"Z","1">>}, Blobs, {3}) :
     ~a.share /\ a.written \in {0, Len(a.buffer)}}

CreateForDetect ==
  /\ ~created.done
  /\ \E a \in DetectArgs : CreateWith(a)

InitDetect ==
  /\ win32 = FALSE
  /\ fused \in SeqsUpTo(DetectGraphs, MaxDetectParts)
  /\ ctxPath = <<"m",".","o">>
  /\ files = NoFiles
  /\ sharedName = <<>>
  /\ nodes = <<>>
  /\ created = NotCreated
  /\ session = <<>>
  /\ invocations = 0
  /\ mainRes = NoMainRes
  /\ selRes = NoSelRes
  /\ loaded = NotLoaded
  /\ writers = <<>>
  /\ detected = NotDetected

NextDetect == CreateForDetect \/ Detect

SpecDetect == InitDetect /\ [][NextDetect]_vars

(***************************************************************************)
(* Claims                                                                  *)
(***************************************************************************)
Succeeded == created.done /\ created.code = OK

IsMain(node) == Get(node.attrs, MAIN_CONTEXT, 0) = 1

CooperativeEnv(env) ==
  env.statOk /\ env.openOk /\ env.readOk /\ env.backend = OK

\* C1: after a successful CreateEPContextNodes invocation that does its own
\* write (sharing disabled), of a non-empty blob over N >= 1 partitions in
\* either embed mode, main-node selection succeeds and loading the emitted main
\* node with the same model path succeeds and hands the backend a buffer
\* byte-identical to the blob.
C1_RoundTrip ==
  (Succeeded /\ ~created.args.share) =>
     /\ (mainRes.done => mainRes.code = OK /\ mainRes.pos = <<0>>)
     /\ (loaded.done /\ loaded.part = 1 /\ CooperativeEnv(loaded.env) =>
           /\ loaded.res.code = OK
           /\ loaded.res.handed
           /\ loaded.res.buf = created.args.buffer)

\* C2: after every successful CreateEPContextNodes invocation over N >= 1
\* partitions exactly one emitted node is the main one (the first partition's),
\* and every other emitted node is marked not main and carries neither a
\* payload attribute nor a sizing attribute.
C2_ExactlyOneMain ==
  Succeeded =>
     /\ Len(nodes) >= 1
     /\ {i \in 1..Len(nodes) : IsMain(nodes[i])} = {1}
     /\ \A i \in 2..Len(nodes) :
          /\ EP_CACHE_CONTEXT \notin DOMAIN nodes[i].attrs
          /\ MAX_SIZE \notin DOMAIN nodes[i].attrs

\* C9: an invocation in embed mode performs no file-system operation and leaves
\* the file system as it was, and loading the main node it emitted performs no
\* file-system operation either, for every N >= 1 and every sharing setting.
C9_EmbedNoFileSystem ==
  (created.done /\ created.args.embed) =>
     /\ created.fsOps = <<>>
     /\ files = NoFiles
     /\ (loaded.done /\ loaded.part = 1 => loaded.res.fsOps = <<>>)

C9_Witness ==
  /\ created.done /\ created.args.embed /\ created.args.share
  /\ Len(nodes) = 2
  /\ loaded.done /\ loaded.part = 1
  /\ loaded.res.handed /\ loaded.res.buf = created.args.buffer

\* C10: after every successful CreateEPContextNodes invocation, in embed mode
\* as in external mode, the main node carries max_size with the value the
\* caller supplied, and TryGetMaxSpillFillSize on that node reads it back.
C10_MainCarriesSize ==
  Succeeded =>
     /\ MAX_SIZE \in DOMAIN nodes[1].attrs
     /\ nodes[1].attrs[MAX_SIZE] = created.args.maxSpill
     /\ TryGetMaxSpillFillSize(fused, 1, <<0>>).max_spill_fill_size
          = created.args.maxSpill

\* C5: every failure of LoadQnnCtxFromOnnxGraph is returned with the
\* INVALID_GRAPH status code, whatever its cause.
C5_FailuresAreInvalidGraph ==
  (loaded.done /\ loaded.res.code # OK) => loaded.res.code = INVALID_GRAPH

\* the shapes the claim calls absolute: a leading '/', or a drive letter, a
\* colon and a separator
ClaimAbsolute(ref) ==
  \/ ref[1] = "/"
  \/ (Len(ref) >= 3 /\ ref[1] \in Letters /\ ref[2] = ":" /\ ref[3] \in {"/", "\\"})

\* directory dir joined with the relative reference ref
JoinDir(dir, ref) == IF dir = <<>> THEN ref ELSE dir \o <<"/">> \o ref

ExternalRefLoaded ==
  /\ loaded.done
  /\ Len(fused[1]) = 1
  /\ fused[1][1].op = EPCONTEXT_OP
  /\ Get(fused[1][1].attrs, EMBED_MODE, 1) = 0
  /\ Get(fused[1][1].attrs, EP_CACHE_CONTEXT, <<>>) # <<>>

LoadedRef == fused[1][1].attrs[EP_CACHE_CONTEXT]

\* C6: the loader rejects every external reference that is an absolute path
\* and every reference whose text contains "..", and resolves every other
\* reference to the model file's directory joined with the reference.
C6_PathResolution ==
  ExternalRefLoaded =>
     IF ClaimAbsolute(LoadedRef) \/ Find(LoadedRef, DotDot) # NPOS
     THEN loaded.res.err \in {"absolute", "dotdot"} /\ loaded.res.path = NoPath
     ELSE /\ loaded.res.path # NoPath
          /\ Location(loaded.res.path, win32)
               = Location(JoinDir(ParentPath(ctxPath, win32), LoadedRef), win32)


\* the sizing attribute of the partition at 0-based position k of a list
SizeAt(list, k) == Get(fused[list[k + 1] + 1][1].attrs, MAX_SIZE, 0)

MaxOf(S) == CHOOSE m \in S : \A x \in S : x <= m

MinOf(S) == CHOOSE m \in S : \A x \in S : m <= x

Selected == selRes.done /\ selRes.code = OK

\* greatest sizing attribute of the listed partitions, 0 when none is positive
ListMax == MaxOf({0} \cup {SizeAt(selRes.input, k) : k \in 0..Len(selRes.input) - 1})

\* first 0-based position of the input list whose partition has that size
FirstMaxPos ==
  MinOf({k \in 0..Len(selRes.input) - 1 : SizeAt(selRes.input, k) = ListMax})

RemoveAt(list, k) == SubSeq(list, 1, k - 1) \o SubSeq(list, k + 1, Len(list))

\* C8: the reordering moves the maximum-sized partition to position 0 and
\* leaves the relative order of all other entries unchanged.
C8_OthersKeepRelativeOrder ==
  (Selected /\ ListMax > 0) =>
     /\ selRes.list[1] = selRes.input[FirstMaxPos + 1]
     /\ RemoveAt(selRes.list, 1) = RemoveAt(selRes.input, FirstMaxPos + 1)

\* C8 as amended: the maximum-sized partition is exchanged with the entry at
\* position 0, and every other position of the list keeps its entry.
C8_ExchangedWithFront ==
  (Selected /\ ListMax > 0) =>
     /\ selRes.list[1] = selRes.input[FirstMaxPos + 1]
     /\ selRes.list[FirstMaxPos + 1] = selRes.input[1]
     /\ \A k \in 1..Len(selRes.input) :
          k \notin {1, FirstMaxPos + 1} => selRes.list[k] = selRes.input[k]

\* the maximum is found at 0-based position 2 of three or more entries
C8_Witness ==
  /\ Selected
  /\ Len(selRes.input) >= 3
  /\ ListMax > 0
  /\ FirstMaxPos = 2
  /\ selRes.list[1] = selRes.input[3]
  /\ selRes.list[3] = selRes.input[1]


(***************************************************************************)
(* SpecSession: a sequence of CreateEPContextNodes invocations, one after  *)
(* the other, as the sessions of one process make them                     *)
(***************************************************************************)
\* "d/m.o", "e/n.o", "m.o"
SessionPaths ==
  {<<"d","/","m",".","o">>, <<"e","/","n",".","o">>, <<"m",".","o">>}

\* every session invocation has MaxParts partitions, the first one named
\* "QNNExecutionProvider_1"
SessionNames == {kQnnExecutionProvider \o <<"_","1">>}

SessionBlob == [i \in 1..MaxBlobLen |-> IF i = MaxBlobLen THEN Byte00 ELSE Byte7f]

\* the participants of sharing sessions: external mode, sharing enabled
SessionArgs ==
  {a \in CreateArgs(SessionPaths, SessionNames, {SessionBlob}, {3}) :
     /\ a.share /\ ~a.embed
     /\ Len(a.names) = MaxParts
     /\ a.failAt \in {0, 1, MaxParts}
     /\ a.written \in {0, Len(a.buffer)}
     /\ (a.openOk /\ a.stop /\ a.failAt # 1 => a.written = Len(a.buffer))}

CreateInSession ==
  /\ invocations < MaxInvocations
  /\ \E a \in SessionArgs : CreateWith(a)

InitSession ==
  /\ win32 \in BOOLEAN
  /\ sharedName = <<>>
  /\ files = NoFiles
  /\ nodes = <<>>
  /\ created = NotCreated
  /\ session = <<>>
  /\ invocations = 0
  /\ fused = <<>>
  /\ ctxPath = <<>>
  /\ mainRes = NoMainRes
  /\ selRes = NoSelRes
  /\ loaded = NotLoaded
  /\ writers = <<>>
  /\ detected = NotDetected

NextSession == CreateInSession

SpecSession == InitSession /\ [][NextSession]_vars

\* the current session started from an empty SharedContext and every
\* invocation of it returned success
CleanSession ==
  /\ session # <<>>
  /\ session[1].sharedBefore = <<>>
  /\ \A i \in 1..Len(session) : session[i].ok

\* C3: in a sharing session of external-mode invocations that starts from an
\* empty SharedContext and in which only the last invocation is final, no
\* invocation before the final one writes the file, the final one writes it
\* exactly once, and every main node references the filename the first
\* invocation computed.
C3_SessionWritesOnce ==
  CleanSession =>
     \A i \in 1..Len(session) :
        /\ session[i].name = session[1].computed
        /\ session[i].writes = (IF session[i].final THEN 1 ELSE 0)

\* three invocations with different computed names, the third one final
C3_Witness ==
  /\ CleanSession
  /\ Len(session) = 3
  /\ session[3].final
  /\ session[2].computed # session[1].computed
  /\ session[3].computed # session[1].computed
  /\ session[3].name = session[1].computed
  /\ session[3].writes = 1


(***************************************************************************)
(* SpecConc: CreateEPContextNodes invocations of several sessions that are *)
(* created at the same time (external mode, sharing enabled, one           *)
(* partition).  Each call of a SharedContext method is one atomic step;    *)
(* the steps of different invocations interleave.                          *)
(***************************************************************************)
NumWriters == 2

\* SharedContext::GetSharedCtxBinFileName
GetSharedCtxBinFileName(shared) == shared

\* SharedContext::SetSharedCtxBinFileName
SetSharedCtxBinFileName(shared, name) == name

\* SharedContext::ResetSharedCtxBinFileName
ResetSharedCtxBinFileName(shared) == <<>>

ConcArgs ==
  {a \in CreateArgs({<<"d","/","m",".","o">>, <<"e","/","n",".","o">>},
                    SessionNames, {SessionBlob}, {3}) :
     /\ a.share /\ ~a.embed
     /\ Len(a.names) = 1 /\ a.failAt = 0
     /\ a.written \in {0, Len(a.buffer)}
     /\ (a.openOk /\ a.stop => a.written = Len(a.buffer))}

WriterStart(a) ==
  [pc |-> "compute", a |-> a, code |-> OK, local |-> <<>>, sawEmpty |-> FALSE,
   name |-> <<>>, binPath |-> NoPath, attrs |-> NoAttrs]

\* lines 242-256: the names computed from the invocation's own arguments
WCompute(w) ==
  /\ writers[w].pc = "compute"
  /\ LET bin0 == ContextBinPath(writers[w].a.path, writers[w].a.names[1])
     IN writers' = [writers EXCEPT ![w].pc = "get",
                                   ![w].binPath = bin0,
                                   ![w].name = FileName(bin0, win32)]
  /\ UNCHANGED <<win32, sharedName, files, nodes, created, session, invocations>>
  /\ UNCHANGED loadVars

\* line 260: the copy of the shared name
WGet(w) ==
  /\ writers[w].pc = "get"
  /\ writers' = [writers EXCEPT ![w].pc = "check",
                                ![w].local = GetSharedCtxBinFileName(sharedName),
                                ![w].sawEmpty = (GetSharedCtxBinFileName(sharedName) = <<>>)]
  /\ UNCHANGED <<win32, sharedName, files, nodes, created, session, invocations>>
  /\ UNCHANGED loadVars

\* lines 261-267: record the own name, or take over the recorded one
WSetOrReuse(w) ==
  /\ writers[w].pc = "check"
  /\ IF writers[w].local = <<>>
     THEN /\ sharedName' = SetSharedCtxBinFileName(sharedName, writers[w].name)
          /\ writers' = [writers EXCEPT ![w].pc = "write"]
     ELSE /\ sharedName' = sharedName
          /\ writers' = [writers EXCEPT
                           ![w].pc = "write",
                           ![w].name = writers[w].local,
                           ![w].binPath = ParentPath(writers[w].binPath, win32)
                                            \o <<"/">> \o writers[w].local]
  /\ UNCHANGED <<win32, files, nodes, created, session, invocations>>
  /\ UNCHANGED loadVars

\* lines 272-279: the final invocation of a session writes the file
WWrite(w) ==
  /\ writers[w].pc = "write"
  /\ IF ~writers[w].a.stop
     THEN /\ files' = files
          /\ writers' = [writers EXCEPT ![w].pc = "finish"]
     ELSE IF ~writers[w].a.openOk
     THEN /\ files' = files
          /\ writers' = [writers EXCEPT ![w].pc = "done", ![w].code = FAIL]
     ELSE /\ files' = WriteFile(files, writers[w].binPath, writers[w].a.buffer,
                                writers[w].a.written, win32)
          /\ writers' = [writers EXCEPT ![w].pc = "finish"]
  /\ UNCHANGED <<win32, sharedName, nodes, created, session, invocations>>
  /\ UNCHANGED loadVars

\* lines 281-295: the node's attributes, and the reset by the final invocation
WFinish(w) ==
  /\ writers[w].pc = "finish"
  /\ sharedName' = IF writers[w].a.stop THEN ResetSharedCtxBinFileName(sharedName)
                   ELSE sharedName
  /\ writers' = [writers EXCEPT
                   ![w].pc = "done",
                   ![w].attrs = CommonAttributes(
                                  AddAttribute(
                                    AddAttribute(NoAttrs, EP_CACHE_CONTEXT, writers[w].name),
                                    MAX_SIZE, ToInt64(writers[w].a.maxSpill)),
                                  FALSE, writers[w].a.names[1])]
  /\ UNCHANGED <<win32, files, nodes, created, session, invocations>>
  /\ UNCHANGED loadVars

InitConc ==
  /\ win32 \in BOOLEAN
  /\ sharedName = <<>>
  /\ files = NoFiles
  /\ nodes = <<>>
  /\ created = NotCreated
  /\ session = <<>>
  /\ invocations = 0
  /\ fused = <<>>
  /\ ctxPath = <<>>
  /\ mainRes = NoMainRes
  /\ selRes = NoSelRes
  /\ loaded = NotLoaded
  /\ writers \in [1..NumWriters -> {WriterStart(a) : a \in ConcArgs}]
  /\ detected = NotDetected

NextConc ==
  \E w \in 1..NumWriters :
     WCompute(w) \/ WGet(w) \/ WSetOrReuse(w) \/ WWrite(w) \/ WFinish(w)

SpecConc == InitConc /\ [][NextConc]_vars

\* C4: when invocations with sharing enabled run concurrently from an empty
\* SharedContext, check-if-set, set and clear act as one critical section: no
\* two invocations of a session both find the shared name empty, and all main
\* nodes emitted in the session reference the same filename.
C4_AtomicSharedName ==
  (\A w \in 1..NumWriters : ~writers[w].a.stop) =>
     /\ Cardinality({w \in 1..NumWriters : writers[w].sawEmpty}) <= 1
     /\ \A v, w \in 1..NumWriters :
          (writers[v].pc = "done" /\ writers[w].pc = "done")
            => writers[v].attrs[EP_CACHE_CONTEXT] = writers[w].attrs[EP_CACHE_CONTEXT]


(***************************************************************************)
(* Claims about the end of a sharing session, write errors, the empty      *)
(* file, the single copy of the blob and the order of the loader's steps   *)
(***************************************************************************)
\* C11: whenever a CreateEPContextNodes invocation with sharing enabled and
\* stop_share_ep_contexts set has returned, with success or with an error, in
\* either embed mode, SharedContext holds no file name.
C11_FinalClearsSharedName ==
  (created.done /\ created.args.share /\ created.args.stop) => sharedName = <<>>

\* C12: a CreateEPContextNodes invocation that has to write the context file
\* never returns success while the file is missing or holds fewer bytes than
\* the context binary.
C12_WriteErrorsReported ==
  (Succeeded /\ ~created.args.embed
     /\ (~created.args.share \/ created.args.stop)) =>
     /\ Location(created.binPath, win32) \in DOMAIN files
     /\ files[Location(created.binPath, win32)] = created.args.buffer

\* the load was of a single EPContext node in external mode (embed_mode = 0)
ExternalNodeLoaded ==
  /\ loaded.done
  /\ Len(fused[1]) = 1
  /\ fused[1][1].op = EPCONTEXT_OP
  /\ Get(fused[1][1].attrs, EMBED_MODE, 1) = 0

LoadedOp(op) == \E k \in 1..Len(loaded.res.fsOps) : loaded.res.fsOps[k] = op

\* C13: in external mode, when the reference leads to a regular file of length
\* zero that can be opened, the load fails with the empty-file error and the
\* backend is not invoked; the backend is invoked only with a non-empty buffer
\* that was read completely from the file.
C13_EmptyFileRejected ==
  ExternalNodeLoaded =>
     /\ (/\ loaded.res.path # NoPath
         /\ loaded.env.statOk /\ loaded.env.openOk
         /\ IsRegularFile(files, loaded.res.path, win32)
         /\ files[Location(loaded.res.path, win32)] = <<>>
         => /\ loaded.res.err = "empty_file"
            /\ loaded.res.code # OK
            /\ ~loaded.res.handed
            /\ ~LoadedOp("read"))
     /\ (loaded.res.handed =>
           /\ loaded.res.buf # <<>>
           /\ LoadedOp("read")
           /\ loaded.res.buf = files[Location(loaded.res.path, win32)])

C13_Witness ==
  /\ ExternalNodeLoaded
  /\ loaded.res.path # NoPath
  /\ IsRegularFile(files, loaded.res.path, win32)
  /\ files[Location(loaded.res.path, win32)] = <<>>
  /\ loaded.res.err = "empty_file"

InlinePayloads == {i \in 1..Len(nodes) : EP_CACHE_CONTEXT \in DOMAIN nodes[i].attrs}

FileWrites == Cardinality({k \in 1..Len(created.fsOps) : created.fsOps[k] = "write"})

\* C14: one invocation stores the context binary at most once, never once per
\* partition: after a successful invocation in embed mode exactly one node
\* carries the payload and no file is written; in external mode exactly one
\* node carries the reference, no node carries the binary, and the file is
\* written once when sharing is disabled or the invocation is final and not at
\* all otherwise.
C14_BlobStoredOnce ==
  /\ created.done => (FileWrites <= 1 /\ Cardinality(InlinePayloads) <= 1)
  /\ Succeeded =>
       /\ InlinePayloads = {1}
       /\ IF created.args.embed
          THEN nodes[1].attrs[EP_CACHE_CONTEXT] = created.args.buffer /\ FileWrites = 0
          ELSE /\ nodes[1].attrs[EP_CACHE_CONTEXT] # created.args.buffer
               /\ FileWrites = (IF ~created.args.share \/ created.args.stop
                                THEN 1 ELSE 0)

C14_Witness ==
  /\ Succeeded
  /\ Len(nodes) = MaxParts
  /\ ~created.args.embed /\ created.args.share /\ created.args.stop
  /\ FileWrites = 1

\* C15: for an external-mode node whose reference is empty, absolute or holds
\* "..", the load fails without any file-system operation and without
\* invoking the backend.
C15_ValidationBeforeAccess ==
  (/\ ExternalNodeLoaded
   /\ LET ref == Get(fused[1][1].attrs, EP_CACHE_CONTEXT, <<>>)
      IN ref = <<>> \/ ClaimAbsolute(ref) \/ Find(ref, DotDot) # NPOS) =>
     /\ loaded.res.code # OK
     /\ loaded.res.fsOps = <<>>
     /\ ~loaded.res.handed


(***************************************************************************)
(* Claims about the place and the name of the context file and about the   *)
(* main-node lookup                                                        *)
(***************************************************************************)
\* the path the loader resolves reference name to for the model at path
ResolvedFrom(path, name) ==
  ResolveExternal(ParentPath(path, win32), name, win32)

\* C16: after a completed sharing session of external-mode invocations that
\* all succeeded, the last one final, the reference on every invocation's main
\* node, resolved against the directory of that invocation's own model,
\* leads to the file the final invocation wrote.
C16_SessionReferencesResolve ==
  (CleanSession /\ SessionOver(session)) =>
     \A i \in 1..Len(session) :
        /\ ResolvedFrom(session[i].path, session[i].name).code = OK
        /\ Location(ResolvedFrom(session[i].path, session[i].name).path, win32)
             = Location(session[Len(session)].binPath, win32)
        /\ Location(session[Len(session)].binPath, win32) \in DOMAIN files

\* the partition name with the tag "QNNExecutionProvider" removed where it
\* occurs as a substring
WithoutTag(graph_name) ==
  IF Find(graph_name, kQnnExecutionProvider) = NPOS THEN graph_name
  ELSE EraseAt(graph_name, Find(graph_name, kQnnExecutionProvider),
               Len(kQnnExecutionProvider))

\* the file name of the model path without its final extension
ModelStem(path) ==
  IF FindLastOf(FileName(path, win32), <<".">>) = NPOS THEN FileName(path, win32)
  ELSE SubSeq(FileName(path, win32), 1,
              FindLastOf(FileName(path, win32), <<".">>) - 1)

ExpectedBinName(a) == ModelStem(a.path) \o WithoutTag(a.names[1]) \o DotBin

\* C17: in external mode without a recorded shared name, the reference on the
\* main node is the model's file name without its final extension, followed by
\* the partition name without the tag "QNNExecutionProvider" and by ".bin",
\* and the file written is the one of that name in the model's directory.
C17_ExternalFileName ==
  (/\ Succeeded /\ ~created.args.embed
   /\ (~created.args.share \/ created.sharedBefore = <<>>)) =>
     /\ nodes[1].attrs[EP_CACHE_CONTEXT] = ExpectedBinName(created.args)
     /\ Location(created.binPath, win32)
          = Location(JoinDir(ParentPath(created.args.path, win32),
                             ExpectedBinName(created.args)), win32)

\* the filtered graphs are single EPContext nodes
AllSingleEpContext ==
  \A i \in 1..Len(fused) : Len(fused[i]) = 1 /\ fused[i][1].op = EPCONTEXT_OP

\* 0-based positions of the partitions whose node has main_context = 1
MainPositions == {i \in 0..Len(fused) - 1 : IsMain(fused[i + 1][1])}

\* C18a: GetMainContextNode succeeds exactly when every filtered graph is a
\* single EPContext node and at least one has main_context = 1, and then
\* reports exactly the positions with main_context = 1 in ascending order.
C18_LookupCharacterised ==
  mainRes.done =>
     /\ mainRes.code = OK <=> (AllSingleEpContext /\ MainPositions # {})
     /\ mainRes.code = OK =>
          /\ {mainRes.pos[k] : k \in 1..Len(mainRes.pos)} = MainPositions
          /\ \A k \in 1..Len(mainRes.pos) - 1 : mainRes.pos[k] < mainRes.pos[k + 1]

\* C18: GetMainContextNode is characterised as above, and on the nodes one
\* successful CreateEPContextNodes invocation emitted it reports exactly one
\* main position, that of the first partition.
C18_MainNodeLookup ==
  /\ C18_LookupCharacterised
  /\ (Succeeded /\ mainRes.done) => (mainRes.code = OK /\ mainRes.pos = <<0>>)


(***************************************************************************)
(* Claim about the detection of this provider's EPContext nodes            *)
(***************************************************************************)
\* a and b are equal up to the case of their letters
SameIgnoringCase(a, b) ==
  /\ Len(a) = Len(b)
  /\ \A i \in 1..Len(a) :
       \/ a[i] = b[i]
       \/ \E k \in 1..Len(UpperCase) :
            {a[i], b[i]} = {UpperCase[k], LowerCase[k]}

\* the node is an EPContext node whose source names this provider
IsQnnContextNode(node) ==
  /\ node.op = EPCONTEXT_OP
  /\ SOURCE \in DOMAIN node.attrs
  /\ \/ SameIgnoringCase(node.attrs[SOURCE], qnn)
     \/ SameIgnoringCase(node.attrs[SOURCE], qnnexecutionprovider)

\* C19: GraphHasEpContextNode is true exactly for the graphs holding an
\* EPContext node whose source equals "qnn" or "qnnexecutionprovider" up to
\* case, IsFusedGraphHasCtxNode exactly when that is so for some partition,
\* and every node a successful CreateEPContextNodes invocation emitted is
\* recognized.
C19_Detection ==
  detected.done =>
     /\ Len(detected.per) = Len(fused)
     /\ \A i \in 1..Len(fused) :
          detected.per[i] <=> \E j \in 1..Len(fused[i]) : IsQnnContextNode(fused[i][j])
     /\ detected.has <=> \E i \in 1..Len(fused) : detected.per[i]
     /\ Succeeded => (\A i \in 1..Len(fused) : detected.per[i])

C19_Witness ==
  /\ detected.done
  /\ Len(fused) = 2
  /\ detected.per = <<FALSE, TRUE>>
  /\ Len(fused[2]) = 2
  /\ fused[2][2].attrs[SOURCE] = <<"Q","N","N">>

====
